---- MODULE Spec2Model ----
(***************************************************************************)
(* The two arcade games of the repository as state machines.               *)
(*                                                                         *)
(*   Snake      src/src/games/Snake/Snake.tsx                              *)
(*   FlappyBird src/src/games/Snake/types.ts, lines 76..485 (the Flappy    *)
(*              types and the FlappyBird component follow the Snake types  *)
(*              in that file)                                              *)
(*                                                                         *)
(* Each component's React state object is one record variable; an action   *)
(* is one handler (or one animation frame) together with the re-render and *)
(* the effect re-runs it causes.  Math.random, the keys pressed, the swipe *)
(* deltas and the frame period are inputs drawn from small sets.           *)
(***************************************************************************)
EXTENDS Integers, Sequences, FiniteSets, TLC

VARIABLES
    snakeState,   \* Snake: the GameState of useState (Snake.tsx:85)
    initialFoods, \* Snake: initialState.foods, drawn once when the module loads
    elapsed,      \* Snake: timestamp - lastTime of the running gameLoop closure
    flappyState,  \* FlappyBird: the GameState of useState (types.ts:163)
    sincePipe,    \* FlappyBird: Date.now() - lastPipeRef.current, capped at LongAgo
    bound,        \* the bounds of the behaviour: [ticks, inputs], fixed by Init
    nTicks,       \* number of ticks since the game was (re)started
    nInputs,      \* number of user events so far
    ev            \* the last handler that ran, its argument and its outcome

snakeVars == <<snakeState, initialFoods, elapsed>>
flappyVars == <<flappyState, sincePipe>>
vars == <<snakeState, initialFoods, elapsed, flappyState, sincePipe,
          bound, nTicks, nInputs, ev>>

-----------------------------------------------------------------------------
(* Bounds of the model *)

\* moveSnake is called at most MaxTicks times in one game (between two resets)
MaxTicks == 10
\* at most MaxInputs user events (keys, buttons, swipes, pause, reset, ...)
MaxInputs == 2
\* FlappyBird: update runs at most MaxFrames times in one game
MaxFrames == 8
\* FlappyBird: at most MaxFlaps user events (clicks, keys, buttons)
MaxFlaps == 3
\* FlappyBird in mid-game: update runs at most MaxPlayFrames times from the
\* state the game starts the behaviour in, with at most MaxPlayFlaps user events
MaxPlayFrames == 3
MaxPlayFlaps == 2

\* the key presses and difficulty choices of a behaviour of SnakeTurnSpec
MaxTurns == 3

\* the periods of the animation frames (ms) the model enumerates
FramePeriods == {120}

-----------------------------------------------------------------------------
(* Snake: constants and pure helpers *)

GRID_SIZE == 20
WALL_SPAWN_SCORE == 10
MULTI_FOOD_SCORE == 5
SWIPE_THRESHOLD == 50

Directions == {"UP", "DOWN", "LEFT", "RIGHT"}
Difficulties == {"easy", "normal", "hard", "extreme"}
FoodTypes == {"apple", "banana", "meat", "berry"}
\* the colours the model picks in the colour picker (SnakeColor has five)
SnakeColors == {"blue"}

Pt(px, py) == [x |-> px, y |-> py]

INITIAL_SNAKE == <<Pt(10, 10)>>

SPEEDS(d) ==
    CASE d = "easy" -> 150
      [] d = "normal" -> 100
      [] d = "hard" -> 70
      [] d = "extreme" -> 70

FOOD_POINTS(t) ==
    CASE t = "apple" -> 1
      [] t = "banana" -> 2
      [] t = "meat" -> 3
      [] t = "berry" -> 1

SamePos(a, b) == a.x = b.x /\ a.y = b.y

\* array.some(e => e.x === p.x && e.y === p.y)
Some(arr, p) == \E i \in 1..Len(arr) : SamePos(arr[i], p)

\* the loop condition of getRandomPosition: the drawn cell is taken
Taken(p, snake, foods, walls) == Some(snake, p) \/ Some(foods, p) \/ Some(walls, p)

\* mutant of MoveHead: no wrap-around
MoveHeadNoWrap(head, dir) ==
    CASE dir = "UP" -> Pt(head.x, head.y - 1)
      [] dir = "DOWN" -> Pt(head.x, head.y + 1)
      [] dir = "LEFT" -> Pt(head.x - 1, head.y)
      [] dir = "RIGHT" -> Pt(head.x + 1, head.y)

\* the switch of moveSnake: the head one cell further, modulo GRID_SIZE
MoveHead(head, dir) ==
    CASE dir = "UP" -> Pt(head.x, (head.y - 1 + GRID_SIZE) % GRID_SIZE)
      [] dir = "DOWN" -> Pt(head.x, (head.y + 1) % GRID_SIZE)
      [] dir = "LEFT" -> Pt((head.x - 1 + GRID_SIZE) % GRID_SIZE, head.y)
      [] dir = "RIGHT" -> Pt((head.x + 1) % GRID_SIZE, head.y)

\* The cells the model lets Math.random produce, in the order it scans them:
\* every other cell from the head of the snake on, along its row and then the
\* rows below it, and after those the cells in between, in the same order.
ScanCells == GRID_SIZE * GRID_SIZE

ScanCell(head, i) ==
    LET half == (GRID_SIZE * GRID_SIZE) \div 2
        k == IF i < half THEN 2 * i ELSE 2 * (i - half)
        shift == IF i < half THEN 0 ELSE 1
    IN  Pt((head.x + shift + k) % GRID_SIZE, (head.y + (k \div GRID_SIZE)) % GRID_SIZE)

\* the first of the cells ScanCell(snake[0], lo) .. ScanCell(snake[0], hi) that
\* is not taken, if there is one: the first of the first half, or else of the
\* second half
RECURSIVE FirstFree(_, _, _, _, _)
FirstFree(lo, hi, snake, foods, walls) ==
    LET mid == (lo + hi) \div 2
    IN  IF lo > hi THEN {}
        ELSE IF lo = hi
        THEN {p \in {ScanCell(snake[1], lo)} : ~Taken(p, snake, foods, walls)}
        ELSE UNION {IF first # {} THEN first
                    ELSE FirstFree(mid + 1, hi, snake, foods, walls) :
                        first \in {FirstFree(lo, mid, snake, foods, walls)}}

\* a border cell of the row of INITIAL_SNAKE
FarCell == Pt(GRID_SIZE - 1, 10)

\* A closed tour of the cells inside the border, as the direction to leave each
\* cell in: up the column next to the right border, then row by row to the left
\* and to the right down the other columns, and along the last row back to it.
CycleDirection(p) ==
    IF p.x = GRID_SIZE - 2 THEN (IF p.y = 1 THEN "LEFT" ELSE "UP")
    ELSE IF p.y % 2 = 1 THEN (IF p.x > 1 THEN "LEFT" ELSE "DOWN")
    ELSE IF p.y = GRID_SIZE - 2 THEN "RIGHT"
    ELSE IF p.x < GRID_SIZE - 3 THEN "RIGHT"
    ELSE "DOWN"

\* the first cell after p on the tour that is not taken, if one of the next n is
RECURSIVE FirstAhead(_, _, _, _, _)
FirstAhead(p, n, snake, foods, walls) ==
    LET next == MoveHead(p, CycleDirection(p))
    IN  IF n = 0 THEN {}
        ELSE IF Taken(next, snake, foods, walls)
             THEN FirstAhead(next, n - 1, snake, foods, walls)
             ELSE {next}

\* getRandomPosition: rejection sampling returns a cell that is not taken.  The
\* model enumerates three of its results: the first free cell in scan order
\* ("near"), FarCell ("far") and the first free cell ahead of the head on the
\* tour ("ahead").  When no cell is free the loop never ends and the set is
\* empty.
RandomPosition(cell, snake, foods, walls) ==
    CASE cell = "far" -> {p \in {FarCell} : ~Taken(p, snake, foods, walls)}
      [] cell = "near" -> FirstFree(0, ScanCells - 1, snake, foods, walls)
      [] cell = "ahead" -> FirstAhead(snake[1], ScanCells, snake, foods, walls)

getRandomPosition(snake, foods, walls) ==
    RandomPosition("near", snake, foods, walls) \cup RandomPosition("far", snake, foods, walls)

\* getRandomFoodType: cumulative weights 0.4, 0.3, 0.2, 0.1 (in tenths)
getRandomFoodType(random) ==
    IF random < 4 THEN "apple"
    ELSE IF random < 4 + 3 THEN "banana"
    ELSE IF random < 4 + 3 + 2 THEN "meat"
    ELSE IF random < 4 + 3 + 2 + 1 THEN "berry"
    ELSE "apple"

MkFood(position, type) ==
    [x |-> position.x, y |-> position.y, type |-> type, points |-> FOOD_POINTS(type)]

\* The draws of createFood the model enumerates: which cell getRandomPosition
\* returns, and Math.random() of getRandomFoodType in tenths.
FoodDraws == {[cell |-> "near", random |-> 8], [cell |-> "far", random |-> 0]}

\* the draws of a game in which every food lands ahead of the snake
AheadDraws == {[cell |-> "ahead", random |-> 8]}

\* createFood: the set of foods it may return
createFood(snake, foods, walls, draws) ==
    UNION {{MkFood(p, getRandomFoodType(d.random)) :
                p \in RandomPosition(d.cell, snake, foods, walls)} : d \in draws}

\* createWall: the set of walls it may return
createWall(snake, foods, walls) == getRandomPosition(snake, foods, walls)

RECURSIVE BorderWallsFrom(_)
BorderWallsFrom(i) ==
    IF i >= GRID_SIZE THEN <<>>
    ELSE <<Pt(i, 0), Pt(i, GRID_SIZE - 1), Pt(0, i), Pt(GRID_SIZE - 1, i)>>
             \o BorderWallsFrom(i + 1)

createBorderWalls == BorderWallsFrom(0)

\* the border test of extreme mode
OnBorder(p) == p.x = 0 \/ p.x = GRID_SIZE - 1 \/ p.y = 0 \/ p.y = GRID_SIZE - 1

\* mutant of Collides: the tail, which the tick would vacate, is not tested
CollidesButTail(head, snake, walls) ==
    Some(SubSeq(snake, 1, Len(snake) - 1), head) \/ Some(walls, head)

\* the self / wall collision test, on the snake before the new head is added
Collides(head, snake, walls) == Some(snake, head) \/ Some(walls, head)

\* foods.findIndex(food at head); 0 stands for -1
FindIndex(foods, head) ==
    IF Some(foods, head)
    THEN CHOOSE i \in 1..Len(foods) :
            SamePos(foods[i], head) /\ \A j \in 1..(i - 1) : ~SamePos(foods[j], head)
    ELSE 0

\* foods.filter((_, i) => i !== foodIndex)
RemoveAt(arr, idx) == [i \in 1..(Len(arr) - 1) |-> IF i < idx THEN arr[i] ELSE arr[i + 1]]

Min(a, b) == IF a < b THEN a ELSE b

\* mutant of Max: the first argument
MaxIsFirst(a, b) == a

Max(a, b) == IF a > b THEN a ELSE b

\* mutant of FoodCount: Math.ceil for Math.floor
FoodCountCeil(newScore) == Min(3, (newScore + MULTI_FOOD_SCORE - 1) \div MULTI_FOOD_SCORE)

\* Math.min(3, Math.floor(newScore / MULTI_FOOD_SCORE))
FoodCount(newScore) == Min(3, newScore \div MULTI_FOOD_SCORE)

\* for (i = newFoods.length; i < foodCount; i++) newFoods.push(createFood(...)):
\* the set of food lists the loop may end with
RECURSIVE TopUp(_, _, _, _, _)
TopUp(newFoods, foodCount, newSnake, walls, draws) ==
    IF Len(newFoods) >= foodCount THEN {newFoods}
    ELSE UNION {TopUp(Append(newFoods, f), foodCount, newSnake, walls, draws) :
                    f \in createFood(newSnake, newFoods, walls, draws)}

\* the replenishment of moveSnake after a food was eaten
Replenish(newFoods, newScore, newSnake, walls, draws) ==
    IF newScore >= MULTI_FOOD_SCORE
    THEN TopUp(newFoods, FoodCount(newScore), newSnake, walls, draws)
    ELSE {Append(newFoods, f) : f \in createFood(newSnake, newFoods, walls, draws)}

\* mutant of NewScore: every food counts one point
NewScoreOnePoint(score, eatenFood) == score + 1

\* state.score + eatenFood.points
NewScore(score, eatenFood) == score + eatenFood.points

\* mutant of GameOver: the flag is not set
GameOverNotSet(prev) == prev

\* mutant of GameOver: the terminal tick commits the direction too
GameOverCommits(prev) ==
    [prev EXCEPT !.isGameOver = TRUE, !.direction = prev.nextDirection]

\* setState(prev => ({ ...prev, isGameOver: true }))
GameOver(prev) == [prev EXCEPT !.isGameOver = TRUE]

\* mutant of WallDue: the first wall waits for a score above WALL_SPAWN_SCORE
WallDueAbove(difficulty, newScore) ==
    /\ difficulty # "extreme"
    /\ newScore > WALL_SPAWN_SCORE
    /\ newScore % WALL_SPAWN_SCORE = 0

\* mutant of WallDue: every score from WALL_SPAWN_SCORE on adds a wall
WallDueAtLeast(difficulty, newScore) ==
    /\ difficulty # "extreme"
    /\ newScore >= WALL_SPAWN_SCORE

\* the condition under which moveSnake adds a wall
WallDue(difficulty, newScore) ==
    /\ difficulty # "extreme"
    /\ newScore >= WALL_SPAWN_SCORE
    /\ newScore % WALL_SPAWN_SCORE = 0

\* the wall lists moveSnake may end with
SpawnWalls(difficulty, newScore, newSnake, newFoods, walls) ==
    IF WallDue(difficulty, newScore)
    THEN {Append(walls, w) : w \in createWall(newSnake, newFoods, walls)}
    ELSE {walls}

\* mutant of Opposite: the table maps every direction to itself
OppositeIsSame(d) == d

Opposite(d) ==
    CASE d = "UP" -> "DOWN"
      [] d = "DOWN" -> "UP"
      [] d = "LEFT" -> "RIGHT"
      [] d = "RIGHT" -> "LEFT"

\* the keys the model presses; "x" is a key that keyDirections does not map
Keys == {"ArrowUp", "ArrowRight", "s", "a", "x"}

\* keyDirections[e.key]; "none" stands for undefined
keyDirections(key) ==
    CASE key \in {"ArrowUp", "w"} -> "UP"
      [] key \in {"ArrowDown", "s"} -> "DOWN"
      [] key \in {"ArrowLeft", "a"} -> "LEFT"
      [] key \in {"ArrowRight", "d"} -> "RIGHT"
      [] OTHER -> "none"

\* mutant of InputIgnored: the handlers do not look at isGameOver
InputNeverIgnored(st) == FALSE

\* the first line of both direction handlers: if (state.isGameOver) return
InputIgnored(st) == st.isGameOver

\* mutant of NotReversal: every request passes
NotReversalAlways(newDirection, direction) == TRUE

\* the test both direction handlers share: the request is not a reversal
NotReversal(newDirection, direction) == Opposite(newDirection) # direction

Abs(n) == IF n < 0 THEN -n ELSE n

\* the swipe deltas (pixels) the model enumerates
SwipeDeltas == {-60, 50, 60}

\* handleTouchEnd: the direction a swipe asks for, "none" under the threshold
SwipeDirection(deltaX, deltaY) ==
    IF Max(Abs(deltaX), Abs(deltaY)) > SWIPE_THRESHOLD
    THEN IF Abs(deltaX) > Abs(deltaY)
         THEN (IF deltaX > 0 THEN "RIGHT" ELSE "LEFT")
         ELSE (IF deltaY > 0 THEN "DOWN" ELSE "UP")
    ELSE "none"

-----------------------------------------------------------------------------
(* FlappyBird: constants and pure helpers (types.ts:76-160).  Vertical       *)
(* positions and velocities are fixed-point numbers in units of 1/Scale    *)
(* pixel; horizontal positions are whole pixels; angles are in units of    *)
(* 1/(10 * Scale) radian.                                                  *)

Scale == 100

CANVAS_WIDTH == 360
CANVAS_HEIGHT == 640
BIRD_WIDTH == 34
BIRD_HEIGHT == 24
PIPE_WIDTH == 52
PIPE_GAP == 160
\* 0.4, in units of 1/Scale
GRAVITY == 40
\* -7, in units of 1/Scale
FLAP_STRENGTH == -700
PIPE_SPEED == 2

FlappyDifficulties == {"easy", "normal", "hard"}

DIFFICULTY_SETTINGS(d) ==
    CASE d = "easy" ->
            [pipeGap |-> PIPE_GAP + 40, pipeInterval |-> 180,
             gravity |-> (GRAVITY * 8) \div 10]
      [] d = "normal" ->
            [pipeGap |-> PIPE_GAP, pipeInterval |-> 150, gravity |-> GRAVITY]
      [] d = "hard" ->
            [pipeGap |-> PIPE_GAP - 20, pipeInterval |-> 120,
             gravity |-> (GRAVITY * 12) \div 10]

initialBird == [y |-> (CANVAS_HEIGHT * Scale) \div 2, velocity |-> 0, rotation |-> 0]

\* Math.random() * (CANVAS_HEIGHT - PIPE_GAP - 100) + 50, in pixels: the draws
\* the model enumerates, of the interval [50, 430)
TopHeights == {50, 429}

\* createPipe: the set of pipes it may return
createPipe ==
    {[x |-> CANVAS_WIDTH, topHeight |-> h * Scale, passed |-> FALSE] : h \in TopHeights}

flappyInitialState ==
    [bird |-> initialBird,
     pipes |-> <<>>,
     score |-> 0,
     highScore |-> 0,
     isPlaying |-> FALSE,
     isGameOver |-> FALSE,
     difficulty |-> "normal"]

\* Math.PI / 4 and Math.PI / 2 in units of 1/(10 * Scale) radian, rounded down
QuarterPi == 785
HalfPi == 1570

\* Math.min(Math.PI / 2, Math.max(-Math.PI / 4, velocity * 0.1))
Rotation(velocity) == Min(HalfPi, Max(-QuarterPi, velocity))

\* mutant of UpdateBird: the velocity is updated before it moves the bird
UpdateBirdAfter(bird, gravity) ==
    [y |-> bird.y + bird.velocity + gravity,
     velocity |-> bird.velocity + gravity,
     rotation |-> Rotation(bird.velocity)]

\* the bird of the next frame
UpdateBird(bird, gravity) ==
    [y |-> bird.y + bird.velocity,
     velocity |-> bird.velocity + gravity,
     rotation |-> Rotation(bird.velocity)]

\* mutant of MovePipes: no pipe is dropped
MovePipesKeep(pipes) ==
    [i \in 1..Len(pipes) |-> [pipes[i] EXCEPT !.x = pipes[i].x - PIPE_SPEED]]

\* prev.pipes.map(x - PIPE_SPEED).filter(x + PIPE_WIDTH > 0)
MovePipes(pipes) ==
    SelectSeq([i \in 1..Len(pipes) |-> [pipes[i] EXCEPT !.x = pipes[i].x - PIPE_SPEED]],
              LAMBDA pipe : pipe.x + PIPE_WIDTH > 0)

birdBox(bird) ==
    [left |-> CANVAS_WIDTH \div 4 - BIRD_WIDTH \div 2,
     right |-> CANVAS_WIDTH \div 4 + BIRD_WIDTH \div 2,
     top |-> bird.y - (BIRD_HEIGHT * Scale) \div 2,
     bottom |-> bird.y + (BIRD_HEIGHT * Scale) \div 2]

\* mutant of OutOfField: the ceiling is not tested
OutOfFieldBelow(box) == box.bottom > CANVAS_HEIGHT * Scale

\* the ground and ceiling test
OutOfField(box) == box.bottom > CANVAS_HEIGHT * Scale \/ box.top < 0

\* mutant of HitsPipe: the bottom pipe is not tested
HitsPipeTop(box, pipe, pipeGap) ==
    /\ box.right > pipe.x /\ box.left < pipe.x + PIPE_WIDTH
    /\ box.top < pipe.topHeight

\* the pipe test: the bird overlaps the pipe's columns and is outside its gap
HitsPipe(box, pipe, pipeGap) ==
    /\ box.right > pipe.x /\ box.left < pipe.x + PIPE_WIDTH
    /\ \/ box.top < pipe.topHeight
       \/ box.bottom > pipe.topHeight + pipeGap * Scale

\* mutant of Scores: the passed flag is not consulted
ScoresAgain(pipe) == pipe.x + PIPE_WIDTH < CANVAS_WIDTH \div 4

\* the scoring test
Scores(pipe) == ~pipe.passed /\ pipe.x + PIPE_WIDTH < CANVAS_WIDTH \div 4

\* for (const pipe of newState.pipes): from pipe i on, with the pipes and the
\* score as the loop has left them; hit when the loop returned on a collision
RECURSIVE PipeLoop(_, _, _, _, _)
PipeLoop(i, pipes, score, box, pipeGap) ==
    IF i > Len(pipes) THEN [hit |-> FALSE, pipes |-> pipes, score |-> score]
    ELSE IF HitsPipe(box, pipes[i], pipeGap)
    THEN [hit |-> TRUE, pipes |-> pipes, score |-> score]
    ELSE IF Scores(pipes[i])
    THEN PipeLoop(i + 1, [pipes EXCEPT ![i].passed = TRUE], score + 1, box, pipeGap)
    ELSE PipeLoop(i + 1, pipes, score, box, pipeGap)

\* Date.now() - lastPipeRef.current when the last spawn is beyond every interval
LongAgo == 1000

\* mutant of Started: the high score starts again too
StartedFresh(prev) ==
    [flappyInitialState EXCEPT
        !.isPlaying = TRUE,
        !.difficulty = prev.difficulty]

\* the state startGame sets (types.ts:343-348)
Started(prev) ==
    [flappyInitialState EXCEPT
        !.isPlaying = TRUE,
        !.highScore = prev.highScore,
        !.difficulty = prev.difficulty]

\* mutant of Flapped: the impulse is added to the velocity
FlappedAdditive(prev) == [prev EXCEPT !.bird.velocity = prev.bird.velocity + FLAP_STRENGTH]

\* the updater of handleClick (types.ts:362-368)
Flapped(prev) == [prev EXCEPT !.bird.velocity = FLAP_STRENGTH]

-----------------------------------------------------------------------------
(* Snake: state *)

\* initialState, given the foods array built when the module was loaded
initialState(foods) ==
    [snake |-> INITIAL_SNAKE,
     foods |-> foods,
     walls |-> <<>>,
     direction |-> "RIGHT",
     nextDirection |-> "RIGHT",
     score |-> 0,
     highScore |-> 0,
     isGameOver |-> FALSE,
     isPaused |-> FALSE,
     difficulty |-> "normal",
     gridSize |-> GRID_SIZE,
     snakeColor |-> "green"]

\* lastTime of a gameLoop closure that has not seen a frame yet (lastTime = 0)
NoLastTime == -1

Event(op, arg, outcome) == [op |-> op, arg |-> arg, outcome |-> outcome]

SnakeInit ==
    /\ \E food \in createFood(INITIAL_SNAKE, <<>>, <<>>, FoodDraws) : initialFoods = <<food>>
    /\ snakeState = initialState(initialFoods)
    /\ elapsed = NoLastTime
    /\ flappyState = flappyInitialState
    /\ sincePipe = LongAgo
    /\ bound = [ticks |-> MaxTicks, inputs |-> MaxInputs]
    /\ nTicks = 0
    /\ nInputs = 0
    /\ ev = Event("init", "none", "none")

\* The dependencies of the gameLoop effect (Snake.tsx:417), those of moveSnake
\* (line 164) and drawGame (line 361) included.  The effect re-runs, with a new
\* closure whose lastTime is 0, whenever one of them changes.
EffectDeps(st) ==
    <<st.isGameOver, st.isPaused, st.difficulty, st.nextDirection, st.foods,
      st.walls, st.snake, st.direction, st.snakeColor>>

\* elapsed after a handler took the state from old to new; fresh: the handler
\* stored a newly built array, which differs from the old one by identity
AfterRender(old, new, fresh) ==
    IF fresh \/ EffectDeps(old) # EffectDeps(new) THEN NoLastTime ELSE elapsed

-----------------------------------------------------------------------------
(* Snake: the tick *)

\* What moveSnake (Snake.tsx:93-164) may make of the state st of the current
\* render: the new states, each with the way the tick went.  The set is empty
\* when getRandomPosition does not return.
\* The body of moveSnake on the state st, with the foods it creates drawn as in
\* draws: the set of its results, each with what the tick did.  The set is empty
\* when a call of getRandomPosition in it does not return.
Tick(st, draws) ==
    LET head == MoveHead(st.snake[1], st.nextDirection)
        newSnake == <<head>> \o st.snake
        foodIndex == FindIndex(st.foods, head)
        eatenFood == st.foods[foodIndex]
        newScore == NewScore(st.score, eatenFood)
    IN  IF st.difficulty = "extreme" /\ OnBorder(head)
        THEN {[state |-> GameOver(st), outcome |-> "border"]}
        ELSE IF Collides(head, st.snake, st.walls)
        THEN {[state |-> GameOver(st), outcome |-> "collision"]}
        ELSE IF foodIndex # 0
        THEN UNION {{[state |-> [st EXCEPT
                                    !.foods = newFoods,
                                    !.walls = newWalls,
                                    !.score = newScore,
                                    !.highScore = Max(newScore, st.highScore),
                                    !.snake = newSnake,
                                    !.direction = st.nextDirection],
                      outcome |-> "ate"] :
                        newWalls \in SpawnWalls(st.difficulty, newScore, newSnake,
                                                newFoods, st.walls)} :
                    newFoods \in Replenish(RemoveAt(st.foods, foodIndex), newScore,
                                           newSnake, st.walls, draws)}
        ELSE {[state |-> [st EXCEPT
                            !.snake = SubSeq(newSnake, 1, Len(newSnake) - 1),
                            !.direction = st.nextDirection],
               outcome |-> "moved"]}

\* moveSnake, on the state of the current render
moveSnake ==
    \E tick \in Tick(snakeState, FoodDraws) :
        /\ snakeState' = tick.state
        /\ ev' = Event("moveSnake", snakeState.nextDirection, tick.outcome)

\* mutant of LoopRunning: the loop is not torn down on pause
LoopRunningPaused(st) == ~st.isGameOver

\* the gameLoop effect schedules frames unless the game is over or paused
LoopRunning(st) == ~(st.isGameOver \/ st.isPaused)

\* One animation frame of the gameLoop effect (Snake.tsx:388-417)
GameLoop ==
    /\ LoopRunning(snakeState)
    /\ IF elapsed = NoLastTime
       THEN \* if (!lastTime) lastTime = timestamp; elapsed is 0
            /\ elapsed' = 0
            /\ ev' = Event("gameLoop", "none", "first")
            /\ UNCHANGED <<snakeState, nTicks>>
       ELSE \E period \in FramePeriods :
            IF elapsed + period > SPEEDS(snakeState.difficulty)
            THEN \* moveSnake(); drawGame(); the state changed: the effect re-runs
                 /\ nTicks < bound.ticks
                 /\ moveSnake
                 /\ elapsed' = AfterRender(snakeState, snakeState', FALSE)
                 /\ nTicks' = nTicks + 1
            ELSE /\ elapsed' = elapsed + period
                 /\ ev' = Event("gameLoop", "none", "wait")
                 /\ UNCHANGED <<snakeState, nTicks>>
    /\ UNCHANGED <<initialFoods, bound, nInputs, flappyVars>>

-----------------------------------------------------------------------------
(* Snake: the user's handlers *)

\* what both direction handlers do with a direction request
RequestDirection(newDirection) ==
    LET st == snakeState
    IN  IF InputIgnored(st)
        THEN /\ ev' = Event("direction", newDirection, "ignored")
             /\ UNCHANGED <<snakeState, elapsed>>
        ELSE IF newDirection = "none"
        THEN /\ ev' = Event("direction", newDirection, "ignored")
             /\ UNCHANGED <<snakeState, elapsed>>
        ELSE IF NotReversal(newDirection, st.direction)
        THEN /\ snakeState' = [st EXCEPT !.nextDirection = newDirection]
             /\ elapsed' = AfterRender(st, snakeState', FALSE)
             /\ ev' = Event("direction", newDirection, "accepted")
        ELSE /\ ev' = Event("direction", newDirection, "rejected")
             /\ UNCHANGED <<snakeState, elapsed>>

UserEvent ==
    /\ nInputs < bound.inputs
    /\ nInputs' = nInputs + 1
    /\ UNCHANGED <<initialFoods, bound, flappyVars>>

\* handleKeyDown (Snake.tsx:166-193)
HandleKeyDown(key) ==
    /\ UserEvent
    /\ RequestDirection(keyDirections(key))
    /\ UNCHANGED nTicks

\* handleDirectionClick (Snake.tsx:195-208), from an on-screen button
HandleDirectionClick(direction) ==
    /\ UserEvent
    /\ RequestDirection(direction)
    /\ UNCHANGED nTicks

\* handleTouchEnd (Snake.tsx:222-240) after a touch start: a swipe over the
\* threshold calls handleDirectionClick
HandleTouchEnd(deltaX, deltaY) ==
    /\ UserEvent
    /\ IF SwipeDirection(deltaX, deltaY) = "none"
       THEN /\ ev' = Event("direction", "none", "ignored")
            /\ UNCHANGED <<snakeState, elapsed>>
       ELSE RequestDirection(SwipeDirection(deltaX, deltaY))
    /\ UNCHANGED nTicks

\* togglePause (Snake.tsx:242-244)
TogglePause ==
    /\ UserEvent
    /\ snakeState' = [snakeState EXCEPT !.isPaused = ~snakeState.isPaused]
    /\ elapsed' = AfterRender(snakeState, snakeState', FALSE)
    /\ ev' = Event("togglePause", "none", "done")
    /\ UNCHANGED nTicks

\* mutant of ResetState: the high score is reset with the rest
ResetStateAll(difficulty, highScore, snakeColor) ==
    [initialState(initialFoods) EXCEPT
        !.difficulty = difficulty,
        !.snakeColor = snakeColor,
        !.walls = IF difficulty = "extreme" THEN createBorderWalls ELSE <<>>]

\* the state resetGame and handleDifficultyChange build (Snake.tsx:247-253, 259-263)
ResetState(difficulty, highScore, snakeColor) ==
    [initialState(initialFoods) EXCEPT
        !.highScore = highScore,
        !.difficulty = difficulty,
        !.snakeColor = snakeColor,
        !.walls = IF difficulty = "extreme" THEN createBorderWalls ELSE <<>>]

\* resetGame (Snake.tsx:246-255)
ResetGame ==
    /\ UserEvent
    /\ snakeState' = ResetState(snakeState.difficulty, snakeState.highScore,
                                snakeState.snakeColor)
    /\ elapsed' = AfterRender(snakeState, snakeState', TRUE)
    /\ ev' = Event("resetGame", "none", "done")
    /\ nTicks' = 0

\* handleDifficultyChange (Snake.tsx:257-265)
HandleDifficultyChange(difficulty) ==
    /\ UserEvent
    /\ snakeState' = ResetState(difficulty, snakeState.highScore, snakeState.snakeColor)
    /\ elapsed' = AfterRender(snakeState, snakeState', TRUE)
    /\ ev' = Event("handleDifficultyChange", difficulty, "done")
    /\ nTicks' = 0

\* the colour picker's onClick (Snake.tsx:465-468)
SetSnakeColor(color) ==
    /\ UserEvent
    /\ snakeState' = [snakeState EXCEPT !.snakeColor = color]
    /\ elapsed' = AfterRender(snakeState, snakeState', FALSE)
    /\ ev' = Event("setSnakeColor", color, "done")
    /\ UNCHANGED nTicks

SnakeNext ==
    \/ GameLoop
    \/ \E key \in Keys : HandleKeyDown(key)
    \/ \E direction \in Directions : HandleDirectionClick(direction)
    \/ \E deltaX \in SwipeDeltas, deltaY \in SwipeDeltas : HandleTouchEnd(deltaX, deltaY)
    \/ TogglePause
    \/ ResetGame
    \/ \E difficulty \in Difficulties : HandleDifficultyChange(difficulty)
    \/ \E color \in SnakeColors : SetSnakeColor(color)

SnakeSpec == SnakeInit /\ [][SnakeNext]_vars

\* A player who only steers and chooses the difficulty, with enough key presses
\* to turn the snake round onto itself
SnakeTurnInit ==
    /\ \E food \in createFood(INITIAL_SNAKE, <<>>, <<>>, FoodDraws) : initialFoods = <<food>>
    /\ snakeState = initialState(initialFoods)
    /\ elapsed = NoLastTime
    /\ flappyState = flappyInitialState
    /\ sincePipe = LongAgo
    /\ bound = [ticks |-> MaxTicks, inputs |-> MaxTurns]
    /\ nTicks = 0
    /\ nInputs = 0
    /\ ev = Event("init", "none", "none")

SnakeTurnNext ==
    \/ GameLoop
    \/ \E key \in Keys : HandleKeyDown(key)
    \/ \E difficulty \in Difficulties : HandleDifficultyChange(difficulty)

SnakeTurnSpec == SnakeTurnInit /\ [][SnakeTurnNext]_vars

\* A player who pauses, resumes, steers and resets, while the browser keeps
\* delivering the frames the gameLoop effect has requested
SnakePauseNext ==
    \/ GameLoop
    \/ TogglePause
    \/ \E key \in Keys : HandleKeyDown(key)
    \/ ResetGame

SnakePauseSpec == SnakeInit /\ [][SnakePauseNext]_vars /\ WF_vars(GameLoop)

\* A player who never stops pressing direction keys: handleKeyDown
\* (Snake.tsx:166-193) any number of times between the frames.
Mash(key) ==
    /\ RequestDirection(keyDirections(key))
    /\ UNCHANGED <<initialFoods, bound, nTicks, nInputs, flappyVars>>

SnakeLiveNext ==
    \/ GameLoop
    \/ \E key \in Keys : Mash(key)

\* requestAnimationFrame keeps delivering frames while the loop is running
SnakeLiveSpec == SnakeInit /\ [][SnakeLiveNext]_vars /\ WF_vars(GameLoop)

\* A player of the extreme difficulty who steers along the tour: the key press
\* of handleKeyDown that the tour asks for, where it is a turn (Snake.tsx:166-193),
\* and then the tick of moveSnake (Snake.tsx:93-164) with every food landing
\* ahead of the snake.  A game that is over, or a tick that does not end, leaves
\* the state as it is.
PerfectTick(st) ==
    LET newDirection == CycleDirection(st.snake[1])
        steered == IF NotReversal(newDirection, st.direction)
                   THEN [st EXCEPT !.nextDirection = newDirection]
                   ELSE st
        ticks == Tick(steered, AheadDraws)
    IN  IF InputIgnored(st) \/ ticks = {} THEN st
        ELSE (CHOOSE tick \in ticks : TRUE).state

\* the state after n such ticks
RECURSIVE Perfect(_, _)
Perfect(st, n) ==
    IF n = 0 THEN st
    ELSE IF n = 1 THEN PerfectTick(st)
    ELSE LET half == Perfect(st, n \div 2)
         IN  IF half.isGameOver THEN half ELSE Perfect(half, n - n \div 2)

\* the cells inside the border walls of the extreme difficulty
InnerCells == (GRID_SIZE - 2) * (GRID_SIZE - 2)

\* The numbers of ticks played before the behaviours start: the snake and the
\* three foods then leave a few of the inner cells free.
FullStarts == {InnerCells - 7, InnerCells - 6, InnerCells - 5}

\* Late in a game of the extreme difficulty, chosen on the first screen
\* (handleDifficultyChange, Snake.tsx:257-265) and played along the tour
SnakeFullInit ==
    /\ \E food \in createFood(INITIAL_SNAKE, <<>>, <<>>, AheadDraws) : initialFoods = <<food>>
    /\ \E n \in FullStarts :
            snakeState = Perfect(ResetState("extreme", 0, initialState(initialFoods).snakeColor), n)
    /\ elapsed = NoLastTime
    /\ flappyState = flappyInitialState
    /\ sincePipe = LongAgo
    /\ bound = [ticks |-> MaxTicks, inputs |-> MaxInputs]
    /\ nTicks = 0
    /\ nInputs = 0
    /\ ev = Event("init", "none", "none")

SnakeFullNext ==
    \/ GameLoop
    \/ \E key \in Keys : HandleKeyDown(key)

SnakeFullSpec == SnakeFullInit /\ [][SnakeFullNext]_vars

-----------------------------------------------------------------------------
(* FlappyBird: the frame and the handlers (types.ts:251-390) *)

FlappyInit ==
    /\ initialFoods = <<MkFood(FarCell, "apple")>>
    /\ snakeState = initialState(initialFoods)
    /\ elapsed = NoLastTime
    /\ flappyState = flappyInitialState
    /\ sincePipe = LongAgo
    /\ bound = [ticks |-> MaxFrames, inputs |-> MaxFlaps]
    /\ nTicks = 0
    /\ nInputs = 0
    /\ ev = Event("init", "none", "none")

\* The updater of update (types.ts:254-333) on the state prev, time ms after the
\* last spawn, with pipe what createPipe returns if it is called: the new
\* state, the new time since the last spawn and how the updater returned
Frame(prev, time, pipe) ==
    LET settings == DIFFICULTY_SETTINGS(prev.difficulty)
        bird == UpdateBird(prev.bird, settings.gravity)
        moved == MovePipes(prev.pipes)
        spawn == time > settings.pipeInterval
        box == birdBox(bird)
        pipes == IF spawn THEN Append(moved, pipe) ELSE moved
        loop == PipeLoop(1, pipes, prev.score, box, settings.pipeGap)
        since == IF spawn THEN 0 ELSE time
    IN  IF OutOfField(box)
        THEN [state |-> [prev EXCEPT
                            !.bird = bird,
                            !.pipes = pipes,
                            !.isGameOver = TRUE,
                            !.highScore = Max(prev.score, prev.highScore)],
              since |-> since, outcome |-> "field"]
        ELSE IF loop.hit
        THEN [state |-> [prev EXCEPT
                            !.bird = bird,
                            !.pipes = loop.pipes,
                            !.score = loop.score,
                            !.isGameOver = TRUE,
                            !.highScore = Max(prev.score, prev.highScore)],
              since |-> since, outcome |-> "pipe"]
        ELSE [state |-> [prev EXCEPT
                            !.bird = bird,
                            !.pipes = loop.pipes,
                            !.score = loop.score],
              since |-> since, outcome |-> "flew"]

\* mutant of Frozen: update returns at once only when the game is over
FrozenWhenOver(st) == st.isGameOver

\* the first line of update: if (!state.isPlaying || state.isGameOver) return
Frozen(st) == ~st.isPlaying \/ st.isGameOver

\* One animation frame: gameLoop calls update (types.ts:251-334) and draw.  The
\* frame comes period ms after the previous one.
Update ==
    \E period \in FramePeriods :
        LET prev == flappyState
            time == Min(LongAgo, sincePipe + period)
        IN  /\ UNCHANGED <<snakeVars, bound, nInputs>>
            /\ IF Frozen(prev)
               THEN /\ UNCHANGED <<flappyState, nTicks>>
                    /\ sincePipe' = time
                    /\ ev' = Event("update", "none", "idle")
               ELSE /\ nTicks < bound.ticks
                    /\ nTicks' = nTicks + 1
                    /\ \E pipe \in createPipe :
                         LET frame == Frame(prev, time, pipe)
                         IN  /\ flappyState' = frame.state
                             /\ sincePipe' = frame.since
                             /\ ev' = Event("update", "none", frame.outcome)

FlappyEvent ==
    /\ nInputs < bound.inputs
    /\ nInputs' = nInputs + 1
    /\ UNCHANGED <<snakeVars, bound>>

\* startGame (types.ts:342-350)
startGame ==
    /\ flappyState' = Started(flappyState)
    /\ sincePipe' = 0
    /\ nTicks' = 0

\* the restart button and the Play Again button (types.ts:415, 457)
StartGameButton ==
    /\ FlappyEvent
    /\ startGame
    /\ ev' = Event("startGame", "none", "started")

\* handleClick as it runs with a closure over the state st (types.ts:352-369)
handleClick(st, op) ==
    IF st.isGameOver
    THEN /\ startGame
         /\ ev' = Event(op, "none", "started")
    ELSE IF ~st.isPlaying
    THEN /\ flappyState' = Flapped(Started(flappyState))
         /\ sincePipe' = 0
         /\ nTicks' = 0
         /\ ev' = Event(op, "none", "started and flapped")
    ELSE /\ flappyState' = Flapped(flappyState)
         /\ UNCHANGED <<sincePipe, nTicks>>
         /\ ev' = Event(op, "none", "flapped")

\* a click on the game area: onClick={handleClick} of the current render
HandleClick ==
    /\ FlappyEvent
    /\ handleClick(flappyState, "handleClick")

\* the keys the model presses
KeyCodes == {"Space", "KeyX"}

\* handleKeyDown (types.ts:371-381): useCallback with no dependencies, so the
\* handleClick it calls is that of the first render, whose state is initialState
FlappyHandleKeyDown(code) ==
    /\ FlappyEvent
    /\ IF code = "Space"
       THEN handleClick(flappyInitialState, "handleKeyDown")
       ELSE /\ UNCHANGED <<flappyVars, nTicks>>
            /\ ev' = Event("handleKeyDown", code, "ignored")

\* the difficulty buttons (types.ts:399)
SetDifficulty(diff) ==
    /\ FlappyEvent
    /\ flappyState' = [flappyState EXCEPT !.difficulty = diff]
    /\ UNCHANGED <<sincePipe, nTicks>>
    /\ ev' = Event("setDifficulty", diff, "done")

FlappyNext ==
    \/ Update
    \/ StartGameButton
    \/ HandleClick
    \/ \E code \in KeyCodes : FlappyHandleKeyDown(code)
    \/ \E diff \in FlappyDifficulties : SetDifficulty(diff)

FlappySpec == FlappyInit /\ [][FlappyNext]_vars

-----------------------------------------------------------------------------
(* FlappyBird in mid-game.  A pipe needs 127 frames to reach the bird, 162 to  *)
(* score and 206 to leave the screen, so the behaviours below start in states *)
(* the game is in after that many frames: the states Played computes, frame   *)
(* by frame with Frame, from the click that starts the game.                  *)

\* a topHeight createPipe may draw whose gap holds a bird that hovers around
\* the middle of the field, in pixels
LuckyHeight == 190

\* the period of the frames played before the behaviour starts (ms): 60 Hz
PlayPeriod == 16

\* how the player of the first frames clicks: before every frame ("climb"),
\* whenever the bird falls as fast as a flap lifts it ("hover"), or never
\* after the click that starts the game ("fall"), or as "hover" until the
\* first point and never after it ("dive"), or as "hover" and before every
\* frame once the first pipe is at RiseAt ("rise")
Policies == {"climb", "hover", "fall", "dive", "rise"}

\* the x of the first pipe from which the player of "rise" clicks all the time
RiseAt == 48

Clicks(policy, st) ==
    \/ policy = "climb"
    \/ policy = "hover" /\ st.bird.velocity >= -FLAP_STRENGTH
    \/ policy = "dive" /\ st.score = 0 /\ st.bird.velocity >= -FLAP_STRENGTH
    \/ policy = "rise" /\ \/ st.bird.velocity >= -FLAP_STRENGTH
                          \/ st.pipes # <<>> /\ st.pipes[1].x <= RiseAt

\* One frame of a game (its state and the time since the last spawn) for a
\* player who clicks as start.policy says, when createPipe draws start.height
\* for the first pipe and LuckyHeight for the later ones; update returns at
\* once when the game is over.
PlayedFrame(game, start) ==
    IF game.state.isGameOver THEN game
    ELSE LET st == game.state
             clicked == IF Clicks(start.policy, st) THEN Flapped(st) ELSE st
             height == IF st.pipes = <<>> THEN start.height ELSE LuckyHeight
             pipe == [x |-> CANVAS_WIDTH, topHeight |-> height * Scale, passed |-> FALSE]
             frame == Frame(clicked, Min(LongAgo, game.since + PlayPeriod), pipe)
         IN  [state |-> frame.state, since |-> frame.since]

\* the game n frames after game: the first half of the frames, then the rest
\* unless the game is over by then
RECURSIVE Played(_, _, _)
Played(game, n, start) ==
    IF n = 0 THEN game
    ELSE IF n = 1 THEN PlayedFrame(game, start)
    ELSE LET half == Played(game, n \div 2, start)
         IN  IF half.state.isGameOver THEN half
             ELSE Played(half, n - n \div 2, start)

\* The games the behaviours start in: the frames played, the policy of the
\* player and the topHeight of the first pipe.  At PlayPeriod a pipe is spawned
\* every 10th frame, the first in frame 10; it reaches the bird in frame 137,
\* scores in frame 172 and leaves the screen in frame 216.  A bird that climbs
\* reaches the ceiling and one that falls the ground well before the pipes
\* reach it; one that dives after the first point hits the bottom pipe in
\* frame 182; one that rises from frame 167 on, past a first pipe whose gap
\* starts at 150, hits the top of the second pipe in frame 172, the frame in
\* which the first pipe scores.
PlayStarts ==
    [frames : {135, 136, 137}, policy : {"hover"}, height : {50, LuckyHeight, 429}]
    \cup [frames : {170, 171, 214, 215}, policy : {"hover"}, height : {LuckyHeight}]
    \cup [frames : {41, 42, 43}, policy : {"climb"}, height : {LuckyHeight}]
    \cup [frames : {58, 59, 60}, policy : {"fall"}, height : {LuckyHeight}]
    \cup [frames : {180, 181, 182}, policy : {"dive"}, height : {LuckyHeight}]
    \cup [frames : {170, 171, 172}, policy : {"rise"}, height : {150}]

FlappyPlayInit ==
    /\ initialFoods = <<MkFood(FarCell, "apple")>>
    /\ snakeState = initialState(initialFoods)
    /\ elapsed = NoLastTime
    /\ \/ \E start \in PlayStarts :
            LET clicked == [state |-> Flapped(Started(flappyInitialState)), since |-> 0]
                played == Played(clicked, start.frames, start)
            IN  /\ flappyState = played.state
                /\ sincePipe = played.since
       \/ \* the game before its first click
          /\ flappyState = flappyInitialState
          /\ sincePipe = LongAgo
    /\ bound = [ticks |-> MaxPlayFrames, inputs |-> MaxPlayFlaps]
    /\ nTicks = 0
    /\ nInputs = 0
    /\ ev = Event("init", "none", "none")

FlappyPlaySpec == FlappyPlayInit /\ [][FlappyNext]_vars

-----------------------------------------------------------------------------
(* Properties *)

\* a step in which moveSnake ran
TickStep == nTicks' = nTicks + 1

\* a step in which moveSnake ran and did not end the game
MoveStep == TickStep /\ ~snakeState'.isGameOver

\* a step in which a direction handler ran with the request d
DirectionStep(d) == nInputs' = nInputs + 1 /\ ev'.op = "direction" /\ ev'.arg = d

\* a step of resetGame or handleDifficultyChange
ResetStep == nInputs' = nInputs + 1 /\ ev'.op \in {"resetGame", "handleDifficultyChange"}

Reversals == {<<"UP", "DOWN">>, <<"DOWN", "UP">>, <<"LEFT", "RIGHT">>, <<"RIGHT", "LEFT">>}

\* the cell one step from head in direction dir on the 20 x 20 torus
Wrapped(head, dir) ==
    [x |-> IF dir = "RIGHT" THEN (IF head.x = 19 THEN 0 ELSE head.x + 1)
           ELSE IF dir = "LEFT" THEN (IF head.x = 0 THEN 19 ELSE head.x - 1)
           ELSE head.x,
     y |-> IF dir = "DOWN" THEN (IF head.y = 19 THEN 0 ELSE head.y + 1)
           ELSE IF dir = "UP" THEN (IF head.y = 0 THEN 19 ELSE head.y - 1)
           ELSE head.y]

BorderCell(p) == p.x \in {0, 19} \/ p.y \in {0, 19}

\* C1: Snake growth.  A non-terminal tick whose new head lands on a food of
\* value p adds exactly p to the score and one segment to the snake (the new
\* head in front, the tail kept), removes that food and leaves at least as
\* many foods as before, none of them on the eaten cell; a non-terminal tick
\* that eats nothing leaves score, length and foods unchanged (the tail is
\* popped).
C1_SnakeGrowth ==
    [][MoveStep =>
        LET old == snakeState
            new == snakeState'
            h == new.snake[1]
        IN  IF \E i \in 1..Len(old.foods) : SamePos(old.foods[i], h)
            THEN \E i \in 1..Len(old.foods) :
                    /\ SamePos(old.foods[i], h)
                    /\ new.score = old.score + old.foods[i].points
                    /\ new.snake = <<h>> \o old.snake
                    /\ Len(new.snake) = Len(old.snake) + 1
                    /\ \A j \in 1..Len(new.foods) : ~SamePos(new.foods[j], h)
                    /\ Len(new.foods) >= Len(old.foods)
            ELSE /\ new.score = old.score
                 /\ Len(new.snake) = Len(old.snake)
                 /\ new.snake = <<h>> \o SubSeq(old.snake, 1, Len(old.snake) - 1)
                 /\ new.foods = old.foods]_vars

\* C1 witness: the second tick of a game ate the meat at (12,10): the head is
\* there, the snake has two segments and the score is the food's value
C1_Witness ==
    /\ ev.op = "moveSnake" /\ ev.outcome = "ate" /\ nTicks = 2
    /\ snakeState.snake = <<Pt(12, 10), Pt(11, 10)>>
    /\ snakeState.score = 3
    /\ snakeState.difficulty = "normal"

\* C2 as claimed: a direction input overwrites nextDirection (and nothing else)
\* iff it is not the opposite of the committed direction, and changes nothing
\* otherwise.
C2_AcceptedIffNotReversal ==
    [][\A d \in Directions : DirectionStep(d) =>
        IF <<d, snakeState.direction>> \notin Reversals
        THEN snakeState' = [snakeState EXCEPT !.nextDirection = d]
        ELSE snakeState' = snakeState]_vars

\* C2 amended: a direction input overwrites nextDirection (and nothing else)
\* iff the game is not over and the input is not the opposite of the committed
\* direction, and changes nothing otherwise.
C2_ReversalGuard ==
    [][\A d \in Directions : DirectionStep(d) =>
        IF ~snakeState.isGameOver /\ <<d, snakeState.direction>> \notin Reversals
        THEN snakeState' = [snakeState EXCEPT !.nextDirection = d]
        ELSE snakeState' = snakeState]_vars

\* C2 witness: with direction RIGHT, DOWN has just been accepted
C2_Witness ==
    /\ ev = Event("direction", "DOWN", "accepted")
    /\ snakeState.direction = "RIGHT"
    /\ snakeState.nextDirection = "DOWN"
    /\ Len(snakeState.snake) > 1

\* C3: Snake wrap.  Outside extreme difficulty, a tick that moves the snake puts
\* the head one cell further in nextDirection on the 20 x 20 torus (19 -> 0 and
\* 0 -> 19 on the axis of the move, the other coordinate unchanged), and every
\* segment is always within 0..19 on both axes.
C3_SnakeWrap ==
    /\ [](\A i \in 1..Len(snakeState.snake) :
            snakeState.snake[i].x \in 0..19 /\ snakeState.snake[i].y \in 0..19)
    /\ [][(MoveStep /\ snakeState.difficulty # "extreme") =>
            snakeState'.snake[1] = Wrapped(snakeState.snake[1], snakeState.nextDirection)]_vars

\* C3 witness: a tick to the RIGHT has left the head in column 0
C3_Witness ==
    /\ ev.op = "moveSnake" /\ ev.arg = "RIGHT" /\ ev.outcome \in {"moved", "ate"}
    /\ snakeState.difficulty # "extreme"
    /\ snakeState.snake[1].x = 0

\* C4: Snake extreme collision.  In extreme difficulty a tick whose new head
\* would be on row or column 0 or 19 sets game-over and leaves the snake where
\* it is, and no segment is ever on a border row or column.
C4_ExtremeBorder ==
    /\ [](snakeState.difficulty = "extreme" =>
            \A i \in 1..Len(snakeState.snake) : ~BorderCell(snakeState.snake[i]))
    /\ [][(TickStep /\ snakeState.difficulty = "extreme"
              /\ BorderCell(Wrapped(snakeState.snake[1], snakeState.nextDirection))) =>
            (snakeState'.isGameOver /\ snakeState'.snake = snakeState.snake)]_vars

\* C4 witness: in extreme difficulty a tick from column 18 to the RIGHT ended
\* the game
C4_Witness ==
    /\ snakeState.difficulty = "extreme" /\ snakeState.isGameOver
    /\ ev.op = "moveSnake" /\ ev.arg = "RIGHT"
    /\ snakeState.snake[1].x = 18

\* C5: Snake food count.  With score >= 5 there are min(3, floor(score / 5))
\* foods on the grid, with score < 5 exactly one.
C5_FoodCount ==
    Len(snakeState.foods) =
        IF snakeState.score < 5 THEN 1
        ELSE IF snakeState.score < 10 THEN 1
        ELSE IF snakeState.score < 15 THEN 2
        ELSE 3

\* C5 witness: the score has reached 15 and three foods are on the grid
C5_Witness ==
    /\ snakeState.score >= 15 /\ Len(snakeState.foods) = 3
    /\ ev.op = "moveSnake" /\ ev.outcome = "ate"

\* the tick added exactly one wall, on a cell free of the snake (new head
\* included), of the foods (new ones included) and of the other walls
WallAdded ==
    LET old == snakeState
        new == snakeState'
        w == new.walls[Len(new.walls)]
    IN  /\ Len(new.walls) = Len(old.walls) + 1
        /\ SubSeq(new.walls, 1, Len(old.walls)) = old.walls
        /\ ~Some(new.snake, w) /\ ~Some(new.foods, w) /\ ~Some(old.walls, w)

\* C6 as claimed: outside extreme difficulty, every tick in which the score
\* crosses a positive multiple of 10 adds exactly one wall, placed on a free cell.
C6_WallOnCrossing ==
    [][(TickStep /\ snakeState.difficulty # "extreme"
          /\ \E m \in 1..20 : snakeState.score < 10 * m /\ snakeState'.score >= 10 * m)
        => WallAdded]_vars

\* C6 amended: outside extreme difficulty, every tick that eats and leaves the
\* score exactly on a positive multiple of 10 adds exactly one wall, placed on
\* a free cell.
C6_WallSpawn ==
    [][(TickStep /\ snakeState.difficulty # "extreme"
          /\ snakeState'.score # snakeState.score
          /\ \E m \in 1..20 : snakeState'.score = 10 * m)
        => WallAdded]_vars

\* C6 witness: a tick outside extreme difficulty has brought the score to 10
\* and the first wall is on the grid
C6_Witness ==
    /\ ev.op = "moveSnake" /\ ev.outcome = "ate"
    /\ snakeState.difficulty # "extreme"
    /\ snakeState.score = 10 /\ Len(snakeState.walls) = 1

\* C7: Snake terminal state.  Once the game is over no tick runs, and no step
\* other than resetGame or a difficulty change alters snake, direction,
\* nextDirection, score, foods or walls (direction inputs are ignored).
C7_Terminal ==
    [][(snakeState.isGameOver /\ ~ResetStep) =>
        /\ ~TickStep
        /\ snakeState'.snake = snakeState.snake
        /\ snakeState'.direction = snakeState.direction
        /\ snakeState'.nextDirection = snakeState.nextDirection
        /\ snakeState'.score = snakeState.score
        /\ snakeState'.foods = snakeState.foods
        /\ snakeState'.walls = snakeState.walls
        /\ snakeState'.isGameOver]_vars

\* C7 witness: the game is over and a direction input that is no reversal has
\* just been ignored
C7_Witness ==
    /\ snakeState.isGameOver
    /\ ev.op = "direction" /\ ev.outcome = "ignored" /\ ev.arg \in Directions
    /\ <<ev.arg, snakeState.direction>> \notin Reversals
    /\ snakeState.nextDirection # ev.arg

\* C8: Snake placement.  No food is on a wall or on the snake, no wall is on
\* the snake, and no two foods share a cell.
C8_Placement ==
    LET st == snakeState
    IN  /\ \A i \in 1..Len(st.foods) :
                ~Some(st.walls, st.foods[i]) /\ ~Some(st.snake, st.foods[i])
        /\ \A i \in 1..Len(st.walls) : ~Some(st.snake, st.walls[i])
        /\ \A i, j \in 1..Len(st.foods) : i # j => ~SamePos(st.foods[i], st.foods[j])

\* a step of handleClick, from a click or from the Space key
FlapStep ==
    /\ nInputs' = nInputs + 1
    /\ ev'.op \in {"handleClick", "handleKeyDown"}
    /\ ev'.outcome # "ignored"

\* C9: Flappy impulse.  After a flap in the idle or the playing state the
\* bird's velocity is FLAP_STRENGTH = -7, whatever it was before.
C9_FlapImpulse ==
    [][(FlapStep /\ ~flappyState.isGameOver) =>
        flappyState'.bird.velocity = (-7) * Scale]_vars

\* C9 witness: a flap in a running game, after frames in which gravity had
\* changed the velocity, has left the velocity at -7
C9_Witness ==
    /\ ev.outcome = "flapped" /\ nTicks >= 2
    /\ flappyState.isPlaying /\ ~flappyState.isGameOver
    /\ flappyState.bird.velocity = (-7) * Scale
    /\ flappyState.bird.y # (CANVAS_HEIGHT * Scale) \div 2

\* C10: a flap in a running game, by click or by the Space key, changes only
\* the bird's velocity: score, pipes, bird y and the rest of the state stay.
C10_FlapKeepsGame ==
    [][(FlapStep /\ flappyState.isPlaying /\ ~flappyState.isGameOver) =>
        flappyState' = [flappyState EXCEPT !.bird.velocity = flappyState'.bird.velocity]]_vars

\* a step in which update ran on a game that is playing
FrameStep == nTicks' = nTicks + 1 /\ ev'.op = "update"

\* the number of pipes of the sequence that a frame drops: those that end at or
\* left of x = 0 once moved by 2
Dropped(pipes) == Cardinality({i \in 1..Len(pipes) : pipes[i].x - 2 + 52 <= 0})

\* C11: Flappy scoring idempotence.  In every frame the score grows by the
\* number of pipes whose passed flag the frame sets; a flag is set only on a
\* pipe that was not passed and now has x + 52 < 90, is set on every such pipe
\* by a frame that does not end the game, and is never cleared; outside frames
\* the score changes only by a (re)start, which sets it to 0.
C11_ScoreOnce ==
    [][LET old == flappyState
           new == flappyState'
           d == Dropped(old.pipes)
           n == Len(old.pipes) - d
           WasPassed(j) == j <= n /\ old.pipes[j + d].passed
           newly == {j \in 1..Len(new.pipes) : new.pipes[j].passed /\ ~WasPassed(j)}
       IN  /\ FrameStep =>
                /\ Len(new.pipes) \in {n, n + 1}
                /\ \A j \in 1..n : old.pipes[j + d].passed => new.pipes[j].passed
                /\ \A j \in newly : new.pipes[j].x + 52 < 90
                /\ new.score = old.score + Cardinality(newly)
                /\ ~new.isGameOver =>
                        \A j \in 1..Len(new.pipes) :
                            new.pipes[j].x + 52 < 90 => new.pipes[j].passed
           /\ (~FrameStep /\ new.score # old.score) =>
                (new.score = 0 /\ new.pipes = <<>> /\ new.isPlaying)]_vars

\* C11 witness: a frame has just scored the first pipe, now at x = 36 and
\* passed, while the pipe behind it is not passed
C11_Witness ==
    /\ ev.op = "update" /\ ev.outcome = "flew"
    /\ flappyState.score = 1
    /\ Len(flappyState.pipes) > 1
    /\ flappyState.pipes[1].x = 36 /\ flappyState.pipes[1].passed
    /\ ~flappyState.pipes[2].passed

\* C12: Flappy boundary collision.  Every frame after which the bird box has
\* top < 0 or bottom > 640 (y - 12 < 0 or y + 12 > 640) sets game-over, whatever
\* the pipes are; so in every state that is playing and not game-over
\* 12 <= bird.y <= 628.
C12_Boundary ==
    /\ []((flappyState.isPlaying /\ ~flappyState.isGameOver) =>
            (12 * Scale <= flappyState.bird.y /\ flappyState.bird.y <= 628 * Scale))
    /\ [][(FrameStep /\ (flappyState'.bird.y - 12 * Scale < 0
                          \/ flappyState'.bird.y + 12 * Scale > 640 * Scale))
            => flappyState'.isGameOver]_vars

\* C12 witness: a frame has taken the bird box below the ground, with pipes on
\* the screen that the bird does not touch, and the game is over
C12_Witness ==
    /\ ev.op = "update" /\ ev.outcome = "field"
    /\ flappyState.isGameOver
    /\ flappyState.bird.y + 12 * Scale > 640 * Scale
    /\ Len(flappyState.pipes) > 0

\* the pipe gap of a difficulty, in pixels
GapOf(difficulty) ==
    CASE difficulty = "easy" -> 200
      [] difficulty = "normal" -> 160
      [] difficulty = "hard" -> 140

\* the bird of state st (box 73..107 by y - 12..y + 12) overlaps the columns of
\* the pipe and is not inside its gap
Touches(st, pipe) ==
    /\ 107 > pipe.x /\ 73 < pipe.x + 52
    /\ \/ st.bird.y - 12 * Scale < pipe.topHeight
       \/ st.bird.y + 12 * Scale > pipe.topHeight + GapOf(st.difficulty) * Scale

\* C13: Flappy pipe collision.  A frame sets game-over whenever, after the bird
\* and the pipes have moved, some pipe overlaps the bird box horizontally and
\* the bird's top is above topHeight or its bottom below topHeight + gap of
\* the difficulty; a frame after which the bird is inside the field and inside
\* the gap of every pipe it overlaps does not end the game.
C13_PipeCollision ==
    [][FrameStep =>
        LET new == flappyState'
            outside == \/ new.bird.y - 12 * Scale < 0
                       \/ new.bird.y + 12 * Scale > 640 * Scale
            touched == \E j \in 1..Len(new.pipes) : Touches(new, new.pipes[j])
        IN  new.isGameOver <=> (outside \/ touched)]_vars

\* C13 witness: a frame has moved the first pipe, whose gap is 50..210, over
\* the bird, which is inside the field and below the gap: the game is over
C13_Witness ==
    /\ ev.op = "update" /\ ev.outcome = "pipe"
    /\ flappyState.isGameOver
    /\ flappyState.bird.y - 12 * Scale >= 0
    /\ flappyState.bird.y + 12 * Scale <= 640 * Scale
    /\ flappyState.pipes[1].x = 106
    /\ flappyState.pipes[1].topHeight = 50 * Scale
    /\ flappyState.bird.y + 12 * Scale > 210 * Scale

\* the gravity of a difficulty, in hundredths of a pixel per frame
GravityOf(difficulty) ==
    CASE difficulty = "easy" -> 32
      [] difficulty = "normal" -> 40
      [] difficulty = "hard" -> 48

\* clamp(0.1 * velocity, -pi/4, pi/2) in thousandths of a radian, for a
\* velocity in hundredths of a pixel per frame
Clamped(velocity) ==
    IF velocity > 1570 THEN 1570 ELSE IF velocity < -785 THEN -785 ELSE velocity

C15_SpawnRange ==
    (ev.op = "update" /\ flappyState.pipes # <<>>
        /\ flappyState.pipes[Len(flappyState.pipes)].x = CANVAS_WIDTH) =>
    LET pipe == flappyState.pipes[Len(flappyState.pipes)]
        gap == GapOf(flappyState.difficulty)
    IN  /\ ~pipe.passed
        /\ pipe.topHeight >= 50 * Scale
        /\ pipe.topHeight <= (CANVAS_HEIGHT - gap - 50) * Scale
        /\ CANVAS_HEIGHT * Scale - (pipe.topHeight + gap * Scale) >= 50 * Scale

\* C16: Snake reset.  resetGame and handleDifficultyChange, from any state,
\* yield snake = [(10,10)], direction = nextDirection = RIGHT, score 0,
\* isGameOver = isPaused = false and no walls, or exactly the border cells when
\* the resulting difficulty is extreme; highScore and snakeColor keep their
\* values; resetGame keeps the difficulty, handleDifficultyChange sets the one
\* it is given.
C16_Reset ==
    [][ResetStep =>
        /\ snakeState'.snake = <<Pt(10, 10)>>
        /\ snakeState'.direction = "RIGHT" /\ snakeState'.nextDirection = "RIGHT"
        /\ snakeState'.score = 0
        /\ ~snakeState'.isGameOver /\ ~snakeState'.isPaused
        /\ { snakeState'.walls[i] : i \in 1..Len(snakeState'.walls) } =
                IF snakeState'.difficulty = "extreme"
                THEN { p \in [x : 0..(GRID_SIZE - 1), y : 0..(GRID_SIZE - 1)] :
                            BorderCell(p) }
                ELSE {}
        /\ snakeState'.highScore = snakeState.highScore
        /\ snakeState'.snakeColor = snakeState.snakeColor
        /\ snakeState'.difficulty =
                IF ev'.op = "resetGame" THEN snakeState.difficulty ELSE ev'.arg]_vars

\* C16 witness: resetGame in extreme difficulty after a game that scored
C16_Witness ==
    /\ ev.op = "resetGame"
    /\ snakeState.highScore > 0 /\ snakeState.score = 0
    /\ snakeState.difficulty = "extreme" /\ Len(snakeState.walls) > 0
    /\ snakeState.snake = <<Pt(10, 10)>>

\* a step of a user event of FlappyBird with the given outcome
StartStep(outcome) == nInputs' = nInputs + 1 /\ ev'.outcome = outcome

\* C17: Flappy (re)start.  startGame, from any state, yields bird y = 320,
\* velocity 0, rotation 0, no pipes, score 0, isPlaying = true, isGameOver =
\* false, with highScore and difficulty unchanged (a click that starts the
\* game and flaps yields the same state with the velocity of a flap); and
\* highScore never decreases, in any step.
C17_Start ==
    [][/\ StartStep("started") =>
            flappyState' =
                [bird |-> [y |-> (CANVAS_HEIGHT \div 2) * Scale, velocity |-> 0,
                           rotation |-> 0],
                 pipes |-> <<>>, score |-> 0, isPlaying |-> TRUE,
                 isGameOver |-> FALSE,
                 highScore |-> flappyState.highScore,
                 difficulty |-> flappyState.difficulty]
       /\ StartStep("started and flapped") =>
            flappyState' =
                [bird |-> [y |-> (CANVAS_HEIGHT \div 2) * Scale,
                           velocity |-> FLAP_STRENGTH, rotation |-> 0],
                 pipes |-> <<>>, score |-> 0, isPlaying |-> TRUE,
                 isGameOver |-> FALSE,
                 highScore |-> flappyState.highScore,
                 difficulty |-> flappyState.difficulty]
       /\ flappyState'.highScore >= flappyState.highScore]_vars

\* C17 witness: a restart in hard difficulty that kept a high score
C17_Witness ==
    /\ ev.outcome = "started"
    /\ flappyState.highScore > 0 /\ flappyState.difficulty = "hard"
    /\ flappyState.score = 0 /\ flappyState.pipes = <<>>
    /\ flappyState.isPlaying /\ ~flappyState.isGameOver
    /\ flappyState.bird.y = 320 * Scale /\ flappyState.bird.velocity = 0

\* C18: Snake input cannot postpone ticks.  While the game is neither paused
\* nor over and frames keep being delivered, the next tick occurs whatever
\* direction inputs are accepted in between: from every state in which the
\* loop runs and n ticks have occurred, the (n+1)-th tick eventually occurs
\* (or the loop stops running).
C18_TicksGoOn ==
    \A n \in 0..(MaxTicks - 1) :
        (nTicks = n /\ LoopRunning(snakeState))
            ~> (nTicks = n + 1 \/ ~LoopRunning(snakeState))

\* C19: Flappy pipe removal.  Every pipe of the state has x + 52 > 0; a frame
\* keeps, moved by 2 and in their order, exactly the pipes that still have
\* x + 52 > 0 then (and may append the pipe it spawns), and every pipe it
\* drops has passed = true.
C19_PipeRemoval ==
    /\ [](\A i \in 1..Len(flappyState.pipes) :
                flappyState.pipes[i].x + PIPE_WIDTH > 0)
    /\ [][FrameStep =>
            LET old == flappyState.pipes
                new == flappyState'.pipes
                d == Dropped(old)
                n == Len(old) - d
            IN  /\ \A i \in 1..Len(old) :
                        old[i].x - PIPE_SPEED + PIPE_WIDTH <= 0 => i <= d /\ old[i].passed
                /\ Len(new) \in {n, n + 1}
                /\ \A j \in 1..n :
                        /\ new[j].x = old[j + d].x - PIPE_SPEED
                        /\ new[j].topHeight = old[j + d].topHeight]_vars

\* C19 witness: a frame of a running game has just dropped its first pipe (the
\* pipes follow each other at 20 pixels, so the front pipe at x = -32 is the
\* second one)
C19_Witness ==
    /\ ev.op = "update" /\ ev.outcome = "flew" /\ nTicks >= 1
    /\ ~flappyState.isGameOver
    /\ Len(flappyState.pipes) >= 20
    /\ flappyState.pipes[1].x = -32 /\ flappyState.pipes[1].passed
    /\ flappyState.score >= 5

\* C20: Snake terminal tick.  A tick that ends the game (extreme border, self
\* or wall collision) changes only isGameOver: snake, direction, nextDirection,
\* score, highScore, foods and walls are unchanged.  Only a non-terminal tick
\* sets direction to nextDirection (a reset sets it to RIGHT), and after every
\* non-terminal tick direction = nextDirection = the direction the head moved
\* in.
C20_TerminalTick ==
    [][/\ (TickStep /\ snakeState'.isGameOver) =>
            /\ ~snakeState.isGameOver
            /\ snakeState' = [snakeState EXCEPT !.isGameOver = TRUE]
       /\ snakeState'.direction # snakeState.direction =>
            \/ MoveStep
            \/ ResetStep /\ snakeState'.direction = "RIGHT"
       /\ MoveStep =>
            /\ snakeState'.direction = snakeState.nextDirection
            /\ snakeState'.nextDirection = snakeState.nextDirection
            /\ snakeState'.snake[1] =
                    Wrapped(snakeState.snake[1], snakeState'.direction)]_vars

\* C20 witness: the snake, four cells long, has turned round onto its tail; the
\* tick that ended the game left the requested direction uncommitted
C20_Witness ==
    /\ ev.op = "moveSnake" /\ ev.outcome = "collision"
    /\ snakeState.isGameOver
    /\ Len(snakeState.snake) >= 4 /\ snakeState.score > 0
    /\ snakeState.direction # snakeState.nextDirection

\* C21: Snake wall spawning condition.  A tick changes the walls if and only
\* if the difficulty is not extreme, the tick eats and the resulting score is a
\* positive multiple of 10, and then it appends exactly one wall; a tick never
\* removes a wall; in extreme difficulty the walls are the border cells and no
\* tick changes them.
C21_WallCondition ==
    /\ [](snakeState.difficulty = "extreme" =>
            { snakeState.walls[i] : i \in 1..Len(snakeState.walls) } =
                { p \in [x : 0..(GRID_SIZE - 1), y : 0..(GRID_SIZE - 1)] : BorderCell(p) })
    /\ [][TickStep =>
            LET old == snakeState
                new == snakeState'
                due == /\ old.difficulty # "extreme"
                       /\ ev'.outcome = "ate"
                       /\ new.score > 0 /\ new.score % 10 = 0
            IN  /\ Len(new.walls) >= Len(old.walls)
                /\ SubSeq(new.walls, 1, Len(old.walls)) = old.walls
                /\ Len(new.walls) = Len(old.walls) + (IF due THEN 1 ELSE 0)
                /\ ev'.outcome = "ate" <=> new.score > old.score]_vars

\* C21 witness: the ninth tick has eaten the apple that brought the score
\* from 9 to 10 and has added the only wall
C21_Witness ==
    /\ ev.op = "moveSnake" /\ ev.outcome = "ate" /\ nTicks = 9
    /\ snakeState.score = 10 /\ snakeState.highScore = 10
    /\ Len(snakeState.walls) = 1 /\ Len(snakeState.snake) = 5

\* C22: Snake body integrity.  In every state the segments of the snake are on
\* pairwise distinct cells and none of them is on a wall; a tick whose new head
\* is on a segment of the snake (the tail included) or on a wall ends the game.
C22_BodyIntegrity ==
    /\ [](LET snake == snakeState.snake
               walls == snakeState.walls
           IN  /\ \A i, j \in 1..Len(snake) : i # j => snake[i] # snake[j]
               /\ \A i \in 1..Len(snake), k \in 1..Len(walls) : snake[i] # walls[k])
    /\ [][TickStep =>
            LET head == Wrapped(snakeState.snake[1], snakeState.nextDirection)
            IN  (\/ \E i \in 1..Len(snakeState.snake) : snakeState.snake[i] = head
                 \/ \E k \in 1..Len(snakeState.walls) : snakeState.walls[k] = head)
                => snakeState'.isGameOver /\ snakeState'.snake = snakeState.snake]_vars

\* C22 witness: the game ended on the tick that would have moved the head of a
\* snake of four segments onto its tail
C22_Witness ==
    /\ ev.op = "moveSnake" /\ ev.outcome = "collision" /\ snakeState.isGameOver
    /\ Len(snakeState.snake) = 4
    /\ Wrapped(snakeState.snake[1], snakeState.nextDirection) = snakeState.snake[4]

\* C23: Snake high score.  In every state highScore >= score; no step (tick,
\* input, pause, reset, difficulty change, colour) decreases highScore; a tick
\* that eats leaves highScore = max(new score, previous highScore), and no
\* other step changes it.
C23_HighScore ==
    /\ [](snakeState.highScore >= snakeState.score)
    /\ [][/\ snakeState'.highScore >= snakeState.highScore
          /\ (TickStep /\ ev'.outcome = "ate") =>
                snakeState'.highScore =
                    (IF snakeState'.score > snakeState.highScore
                     THEN snakeState'.score ELSE snakeState.highScore)
          /\ ~(TickStep /\ ev'.outcome = "ate") =>
                snakeState'.highScore = snakeState.highScore]_vars

\* C23 witness: in a game played after a reset, a tick has eaten and the score
\* is still below the high score of the earlier game
C23_Witness ==
    /\ ev.op = "moveSnake" /\ ev.outcome = "ate"
    /\ snakeState.score > 0 /\ snakeState.score < snakeState.highScore

\* C24: Flappy high score covers the finished game.  In every game-over state
\* highScore >= score, also when a frame scores one pipe and hits another.
C24_HighScoreCovers ==
    flappyState.isGameOver => flappyState.highScore >= flappyState.score

\* C25: Snake pause.  While isPaused is true no tick is processed, and no step
\* but a reset changes snake, direction, score, highScore, foods or walls; and
\* once the game is resumed and not over, the next tick occurs (unless the
\* game is paused again, ends or is reset first).
C25_Pause ==
    /\ [][(snakeState.isPaused /\ ~ResetStep) =>
            /\ ~TickStep
            /\ snakeState'.snake = snakeState.snake
            /\ snakeState'.direction = snakeState.direction
            /\ snakeState'.score = snakeState.score
            /\ snakeState'.highScore = snakeState.highScore
            /\ snakeState'.foods = snakeState.foods
            /\ snakeState'.walls = snakeState.walls]_vars
    /\ (ev.op = "togglePause" /\ LoopRunning(snakeState) /\ nTicks < bound.ticks)
            ~> (ev.op = "moveSnake" \/ ~LoopRunning(snakeState) \/ ev.op = "resetGame")

\* C25 witness: a game that has scored is paused and a key pressed during the
\* pause has been accepted
C25_Witness ==
    /\ snakeState.isPaused /\ ~snakeState.isGameOver
    /\ ev.op = "direction" /\ ev.outcome = "accepted"
    /\ snakeState.nextDirection # snakeState.direction
    /\ snakeState.score > 0 /\ nTicks >= 2

\* C26: Snake never reverses through buffered input.  In every state
\* nextDirection is not the opposite of the committed direction, whatever
\* direction inputs came since the last tick (during a pause too); so the cell
\* the head would move to is never the second segment of the snake.
C26_NoReversal ==
    /\ [](<<snakeState.nextDirection, snakeState.direction>> \notin Reversals)
    /\ [](Len(snakeState.snake) >= 2 =>
            Wrapped(snakeState.snake[1], snakeState.nextDirection) # snakeState.snake[2])
    /\ [][(TickStep /\ Len(snakeState.snake) >= 2) =>
            snakeState'.snake[1] # snakeState.snake[2]]_vars

\* C26 witness: during a pause, a snake of two or more segments moving RIGHT
\* has been asked to go LEFT, and the request was rejected
C26_Witness ==
    /\ ev = Event("direction", "LEFT", "rejected")
    /\ snakeState.isPaused
    /\ snakeState.direction = "RIGHT" /\ snakeState.nextDirection = "RIGHT"
    /\ Len(snakeState.snake) >= 2

\* the fields of the FlappyBird state that a frame of a running game writes
Shown(st) == <<st.bird, st.pipes, st.score, st.highScore>>

\* C27: Flappy is frozen outside play.  While the game is idle (isPlaying =
\* false) or over, a frame changes nothing, and bird, pipes, score and
\* highScore change only by a click, a key or a restart; a frame changes the
\* state only when isPlaying and not isGameOver.
C27_Frozen ==
    [][/\ (ev'.op = "update" /\ (~flappyState.isPlaying \/ flappyState.isGameOver)) =>
            flappyState' = flappyState /\ nTicks' = nTicks
       /\ (ev'.op = "update" /\ flappyState' # flappyState) =>
            flappyState.isPlaying /\ ~flappyState.isGameOver /\ FrameStep
       /\ ((~flappyState.isPlaying \/ flappyState.isGameOver)
                /\ Shown(flappyState') # Shown(flappyState)) =>
            /\ nInputs' = nInputs + 1
            /\ ev'.op \in {"startGame", "handleClick", "handleKeyDown"}]_vars

\* C27 witness: a frame has come after the game ended on a pipe with one
\* point, and has left the state as it was
C27_Witness ==
    /\ ev = Event("update", "none", "idle")
    /\ flappyState.isGameOver /\ flappyState.isPlaying
    /\ flappyState.score = 1 /\ Len(flappyState.pipes) > 0
    /\ nTicks >= 1

\* the loop of getRandomPosition can end: some cell of the grid is not taken
HasFree(snake, foods, walls) ==
    \E x \in 0..(GRID_SIZE - 1), y \in 0..(GRID_SIZE - 1) :
        ~Taken(Pt(x, y), snake, foods, walls)

\* the tick moveSnake would run on st calls createFood: the head lands on a
\* food without a collision, and the remaining foods are fewer than wanted
PlacesFood(st) ==
    LET head == MoveHead(st.snake[1], st.nextDirection)
        foodIndex == FindIndex(st.foods, head)
        newScore == NewScore(st.score, st.foods[foodIndex])
    IN  /\ ~(st.difficulty = "extreme" /\ OnBorder(head))
        /\ ~Collides(head, st.snake, st.walls)
        /\ foodIndex # 0
        /\ \/ newScore < MULTI_FOOD_SCORE
           \/ Len(st.foods) - 1 < FoodCount(newScore)

\* C28: placement terminates.  In every reachable state of a running game, when
\* the next tick places a food by rejection sampling, a cell free of the grown
\* snake, the remaining foods and the walls exists, and the tick has a result.
C28_PlacementTerminates ==
    LET st == snakeState
        head == MoveHead(st.snake[1], st.nextDirection)
    IN  (LoopRunning(st) /\ PlacesFood(st)) =>
            /\ HasFree(<<head>> \o st.snake,
                       RemoveAt(st.foods, FindIndex(st.foods, head)), st.walls)
            /\ Tick(st, FoodDraws) # {}

====
